---- MODULE Spec2Model ----
(***************************************************************************)
(* Model of the osquery extension-manager client (OsqueryClient) and of   *)
(* the main program that drives it.  Every operation of the client is a   *)
(* blocking RPC: the request is written to the socket, the thread blocks, *)
(* and the handler resumes with the result of the exchange.  The two      *)
(* halves of an operation are therefore two actions, <op>_call and        *)
(* <op>_return; the host's answer is the input of the second.             *)
(***************************************************************************)
EXTENDS Integers, Sequences, FiniteSets, TLC

\* ---------------------------------------------------------------- bounds
\* Number of operations a caller of the library invokes on one session.
MaxCalls == 3

\* ------------------------------------------------------- input domains
Names == {"thrust"}
Sqls == {"SELECT * FROM osquery_info"}
Uuids == {7, 9}
Codes == {0, 1}
ExcTexts == {"boom"}
Row1 == [version |-> "5.0"]
Row2 == [version |-> "5.1"]
RowSeqs == {<< >>, <<Row1, Row2>>, <<Row2, Row1>>}

\* Option<T>: None is the empty sequence, Some(v) the one-element sequence.
None == << >>
Some(v) == <<v>>
is_some(o) == o # None
unwrap(o) == o[1]

\* The structs of the generated bindings, as the spec's data model gives them.
ExtensionStatus == [code : {Some(c) : c \in Codes},
                    uuid : {None} \cup {Some(u) : u \in Uuids}]
PlainStatus == {s \in ExtensionStatus : s.uuid = None}
ExtensionResponse == [status : {Some(s) : s \in PlainStatus},
                      response : {None} \cup {Some(r) : r \in RowSeqs}]

\* What the socket delivers in answer to one request.
Failures == {[kind |-> "io_error"], [kind |-> "malformed"]}
              \cup {[kind |-> "exception", message |-> m] : m \in ExcTexts}
WireOutcomes(method) ==
    Failures \cup
    {[kind |-> "reply", body |-> b] :
        b \in CASE method = "registerExtension" -> ExtensionStatus
                [] method = "query" -> ExtensionResponse
                [] OTHER -> PlainStatus}

\* The result the service client hands to the session for one exchange:
\* a decoded reply is Ok(body); a transport failure, a malformed frame and
\* an exception-kind message are each an Err of their own kind.
call_result(w) ==
    CASE w.kind = "reply" -> [ok |-> TRUE, val |-> w.body]
      [] w.kind = "io_error" -> [ok |-> FALSE, err |-> [type |-> "Transport"]]
      [] w.kind = "malformed" -> [ok |-> FALSE, err |-> [type |-> "Protocol"]]
      [] w.kind = "exception" ->
            [ok |-> FALSE, err |-> [type |-> "Application", message |-> w.message]]

VARIABLES
    session,    \* "none" | "live" | "dropped": the OsqueryClient value
    uuid,       \* OsqueryClient.uuid
    conn,       \* "unconnected" | "failed" | "open" | "closed": the socket
    closes,     \* number of times the connection has been closed
    sent,       \* requests written to the socket, in order
    rcvd,       \* what the socket delivered for each request, in order
    ret,        \* what the last finished operation returned to its caller
    panicked    \* the calling thread is unwinding from a panic

vars == <<session, uuid, conn, closes, sent, rcvd, ret, panicked>>

Init ==
    /\ session = "none"
    /\ uuid = 0
    /\ conn = "unconnected"
    /\ closes = 0
    /\ sent = << >>
    /\ rcvd = << >>
    /\ ret = [op |-> "none", kind |-> "none"]
    /\ panicked = FALSE

\* Variant: a call may be issued while another is still outstanding.
idle_loose == session = "live" /\ ~panicked

idle == session = "live" /\ ~panicked /\ Len(sent) = Len(rcvd)
awaiting(method) ==
    /\ session = "live" /\ ~panicked
    /\ Len(sent) = Len(rcvd) + 1
    /\ sent[Len(sent)].method = method

ConnectOutcomes == {"ok", "connect_failed", "clone_failed"}

\* OsqueryClient::new
new(outcome) ==
    /\ session = "none" /\ ~panicked /\ conn = "unconnected"
    /\ CASE outcome = "connect_failed" ->
              \* UnixStream::connect(..).unwrap() panics
              /\ conn' = "failed" /\ closes' = closes
              /\ session' = session /\ panicked' = TRUE
              /\ ret' = [op |-> "new", kind |-> "panic"]
         [] outcome = "clone_failed" ->
              \* try_clone().unwrap() panics; unwinding drops socket_tx
              /\ conn' = "closed" /\ closes' = closes + 1
              /\ session' = session /\ panicked' = TRUE
              /\ ret' = [op |-> "new", kind |-> "panic"]
         [] outcome = "ok" ->
              /\ conn' = "open" /\ closes' = closes
              /\ session' = "live" /\ panicked' = FALSE
              /\ ret' = [op |-> "new", kind |-> "Some"]
    /\ uuid' = 0
    /\ UNCHANGED <<sent, rcvd>>

\* ---------------------------------------------------- register_extension
\* Variant: the advertised version is the sdk version.
register_request_stale(name) ==
    [method |-> "registerExtension",
     info |-> [name |-> name, version |-> "0.0.0",
               sdk_version |-> "0.0.0", min_sdk_version |-> "0.0.0"],
     registry |-> << >>]

register_request(name) ==
    [method |-> "registerExtension",
     info |-> [name |-> name, version |-> "0.0.1",
               sdk_version |-> "0.0.0", min_sdk_version |-> "0.0.0"],
     registry |-> << >>]

register_extension_call(name) ==
    /\ idle
    /\ sent' = Append(sent, register_request(name))
    /\ UNCHANGED <<session, uuid, conn, closes, rcvd, ret, panicked>>

\* Variant: the uuid is stored only while the slot is still unset.
register_outcome_once(cur, res) ==
    IF ~res.ok THEN [uuid |-> cur, panic |-> FALSE]
    ELSE IF is_some(res.val.uuid)
         THEN [uuid |-> IF cur = 0 THEN unwrap(res.val.uuid) ELSE cur,
               panic |-> FALSE]
         ELSE [uuid |-> cur, panic |-> TRUE]

\* the match on the result: the new uuid, and whether unwrap() panicked
register_outcome(cur, res) ==
    IF ~res.ok THEN [uuid |-> cur, panic |-> FALSE]
    ELSE IF is_some(res.val.uuid)
         THEN [uuid |-> unwrap(res.val.uuid), panic |-> FALSE]
         ELSE [uuid |-> cur, panic |-> TRUE]

register_extension_return(w) ==
    /\ awaiting("registerExtension")
    /\ rcvd' = Append(rcvd, w)
    /\ LET o == register_outcome(uuid, call_result(w)) IN
         /\ uuid' = o.uuid
         /\ panicked' = o.panic
         /\ ret' = [op |-> "register_extension",
                    kind |-> IF o.panic THEN "panic" ELSE "unit"]
    /\ UNCHANGED <<session, conn, closes, sent>>

\* ------------------------------------------------------------------ ping
ping_request == [method |-> "ping"]

ping_call ==
    /\ idle
    /\ sent' = Append(sent, ping_request)
    /\ UNCHANGED <<session, uuid, conn, closes, rcvd, ret, panicked>>

\* Variant: a reply with a failure status is reported as an error.
ping_outcome_strict(res) ==
    IF ~res.ok THEN [op |-> "ping", kind |-> "Err", err |-> res.err]
    ELSE IF unwrap(res.val.code) = 0
         THEN [op |-> "ping", kind |-> "Ok", val |-> TRUE]
         ELSE [op |-> "ping", kind |-> "Err", err |-> [type |-> "Status"]]

ping_outcome(res) ==
    IF ~res.ok THEN [op |-> "ping", kind |-> "Err", err |-> res.err]
    ELSE [op |-> "ping", kind |-> "Ok", val |-> TRUE]

\* Variant: a failed exchange is retried by sending the request again.
ping_return_retry(w) ==
    /\ awaiting("ping")
    /\ rcvd' = Append(rcvd, w)
    /\ IF call_result(w).ok
       THEN sent' = sent /\ ret' = ping_outcome(call_result(w))
       ELSE sent' = Append(sent, ping_request) /\ ret' = ret
    /\ UNCHANGED <<session, uuid, conn, closes, panicked>>

ping_return(w) ==
    /\ awaiting("ping")
    /\ rcvd' = Append(rcvd, w)
    /\ ret' = ping_outcome(call_result(w))
    /\ UNCHANGED <<session, uuid, conn, closes, sent, panicked>>

\* -------------------------------------------------- deregister_extension
\* Variant: the request is built with a default uuid, not the session's.
deregister_request_default(u) == [method |-> "deregisterExtension", uuid |-> 0]

deregister_request(u) == [method |-> "deregisterExtension", uuid |-> u]

deregister_extension_call ==
    /\ idle
    /\ sent' = Append(sent, deregister_request(uuid))
    /\ UNCHANGED <<session, uuid, conn, closes, rcvd, ret, panicked>>

deregister_outcome(res) ==
    IF ~res.ok THEN [op |-> "deregister_extension", kind |-> "Err", err |-> res.err]
    ELSE [op |-> "deregister_extension", kind |-> "Ok", val |-> TRUE]

\* Variant: a decoded deregister reply clears the stored uuid.
deregister_extension_return_reset(w) ==
    /\ awaiting("deregisterExtension")
    /\ rcvd' = Append(rcvd, w)
    /\ ret' = deregister_outcome(call_result(w))
    /\ uuid' = IF call_result(w).ok THEN 0 ELSE uuid
    /\ UNCHANGED <<session, conn, closes, sent, panicked>>

deregister_extension_return(w) ==
    /\ awaiting("deregisterExtension")
    /\ rcvd' = Append(rcvd, w)
    /\ ret' = deregister_outcome(call_result(w))
    /\ UNCHANGED <<session, uuid, conn, closes, sent, panicked>>

\* ----------------------------------------------------------------- query
query_request(q) == [method |-> "query", sql |-> q]

query_call(q) ==
    /\ idle
    /\ sent' = Append(sent, query_request(q))
    /\ UNCHANGED <<session, uuid, conn, closes, rcvd, ret, panicked>>

\* Variant: a failed exchange is reported as an empty result.
query_outcome_swallow(res) ==
    IF ~res.ok THEN [op |-> "query", kind |-> "Ok", rows |-> << >>]
    ELSE IF is_some(res.val.response)
         THEN [op |-> "query", kind |-> "Ok", rows |-> unwrap(res.val.response)]
         ELSE [op |-> "query", kind |-> "panic"]

query_outcome(res) ==
    IF ~res.ok THEN [op |-> "query", kind |-> "Err", err |-> res.err]
    ELSE IF is_some(res.val.response)
         THEN [op |-> "query", kind |-> "Ok", rows |-> unwrap(res.val.response)]
         ELSE [op |-> "query", kind |-> "panic"]

\* Variant: a failed exchange shuts the connection down.
query_return_close(w) ==
    /\ awaiting("query")
    /\ rcvd' = Append(rcvd, w)
    /\ LET o == query_outcome(call_result(w)) IN
         /\ ret' = o
         /\ panicked' = (o.kind = "panic")
         /\ conn' = IF o.kind = "Err" THEN "closed" ELSE conn
         /\ closes' = IF o.kind = "Err" THEN closes + 1 ELSE closes
    /\ UNCHANGED <<session, uuid, sent>>

query_return(w) ==
    /\ awaiting("query")
    /\ rcvd' = Append(rcvd, w)
    /\ LET o == query_outcome(call_result(w)) IN
         /\ ret' = o
         /\ panicked' = (o.kind = "panic")
    /\ UNCHANGED <<session, uuid, conn, closes, sent>>

\* ------------------------------------------------------------- teardown
\* The session value goes out of scope (end of the owner's scope, or the
\* unwinding of a panic raised inside one of its methods): the boxed client
\* and with it both socket handles are dropped.
\* Variant: the session value is forgotten without releasing the socket.
drop_leak ==
    /\ session = "live"
    /\ panicked \/ Len(sent) = Len(rcvd)
    /\ session' = "dropped"
    /\ UNCHANGED <<uuid, conn, closes, sent, rcvd, ret, panicked>>

drop ==
    /\ session = "live"
    /\ panicked \/ Len(sent) = Len(rcvd)
    /\ session' = "dropped"
    /\ conn' = "closed"
    /\ closes' = closes + 1
    /\ UNCHANGED <<uuid, sent, rcvd, ret, panicked>>

\* ------------------------------------------------- a caller of the library
\* A caller invokes at most MaxCalls operations on the session, in any order.
call_register(n) == Len(sent) < MaxCalls /\ register_extension_call(n)
call_ping == Len(sent) < MaxCalls /\ ping_call
call_deregister == Len(sent) < MaxCalls /\ deregister_extension_call
call_query(q) == Len(sent) < MaxCalls /\ query_call(q)

Next ==
    \/ \E o \in ConnectOutcomes : new(o)
    \/ \E n \in Names : call_register(n)
    \/ \E w \in WireOutcomes("registerExtension") : register_extension_return(w)
    \/ call_ping
    \/ \E w \in WireOutcomes("ping") : ping_return(w)
    \/ call_deregister
    \/ \E w \in WireOutcomes("deregisterExtension") : deregister_extension_return(w)
    \/ \E q \in Sqls : call_query(q)
    \/ \E w \in WireOutcomes("query") : query_return(w)
    \/ drop

Spec == Init /\ [][Next]_vars

\* ------------------------------------------------------ the main program
\* main calls new, register_extension("thrust"), ping, query, and
\* deregister_extension once each, in that order; its position is the
\* number of requests it has issued so far.
main_new == new("ok") \/ new("connect_failed") \/ new("clone_failed")
main_register == Len(sent) = 0 /\ register_extension_call("thrust")
main_ping == Len(sent) = 1 /\ ping_call
main_query == Len(sent) = 2 /\ query_call("SELECT * FROM osquery_info")
main_deregister == Len(sent) = 3 /\ deregister_extension_call
main_exit == (panicked \/ Len(rcvd) = 4) /\ drop

MainNext ==
    \/ main_new
    \/ main_register
    \/ \E w \in WireOutcomes("registerExtension") : register_extension_return(w)
    \/ main_ping
    \/ \E w \in WireOutcomes("ping") : ping_return(w)
    \/ main_query
    \/ \E w \in WireOutcomes("query") : query_return(w)
    \/ main_deregister
    \/ \E w \in WireOutcomes("deregisterExtension") : deregister_extension_return(w)
    \/ main_exit

MainSpec == Init /\ [][MainNext]_vars

\* ===================================================== properties
\* The request and the socket outcome of the operation that finished last.
done == Len(rcvd) > 0
lastReq == sent[Len(rcvd)]
lastWire == rcvd[Len(rcvd)]

\* Indices of the register exchanges whose decoded reply carried a uuid.
RegIdx == {i \in DOMAIN rcvd : /\ sent[i].method = "registerExtension"
                               /\ rcvd[i].kind = "reply"
                               /\ is_some(rcvd[i].body.uuid)}
RegReplyUuids == {unwrap(rcvd[i].body.uuid) : i \in RegIdx}
MaxOf(S) == CHOOSE m \in S : \A x \in S : x <= m
\* The uuid of the latest register reply among the first n exchanges.
RegUuidAfter(n) ==
    LET I == {i \in RegIdx : i <= n} IN
    IF I = {} THEN 0 ELSE unwrap(rcvd[MaxOf(I)].body.uuid)

\* The status code of a decoded reply to the given method.
StatusCode(method, body) ==
    IF method = "query" THEN unwrap(unwrap(body.status).code)
    ELSE unwrap(body.code)

\* C1: when register_extension, deregister_extension or query gets a decoded
\* reply whose status code is nonzero, the operation returns without error
\* and without aborting, and its return value carries that status code.
C1_StatusTransparency ==
    (/\ done
     /\ lastReq.method \in {"registerExtension", "deregisterExtension", "query"}
     /\ lastWire.kind = "reply"
     /\ StatusCode(lastReq.method, lastWire.body) # 0)
    => /\ ret.kind \notin {"Err", "panic"}
       /\ "code" \in DOMAIN ret
       /\ ret.code = StatusCode(lastReq.method, lastWire.body)

\* C2: the uuid is 0 right after new; the only step that changes it is the
\* return of a register_extension call whose exchange produced a decoded
\* reply, which stores that reply's uuid; so the uuid is always 0 or the
\* uuid of a register reply this session received.
C2_UuidOnlyFromRegisterReply ==
    /\ [](uuid = 0 \/ uuid \in RegReplyUuids)
    /\ [][/\ (session = "none" /\ session' = "live") => uuid' = 0
          /\ (uuid' # uuid) =>
                /\ Len(rcvd') = Len(rcvd) + 1
                /\ sent[Len(rcvd')].method = "registerExtension"
                /\ rcvd'[Len(rcvd')].kind = "reply"
                /\ uuid' = unwrap(rcvd'[Len(rcvd')].body.uuid)]_vars

\* C2 witness: the uuid was set, then a register exchange failed and a
\* deregister got its reply, and the uuid is still the one that was set.
C2_Witness ==
    /\ uuid # 0
    /\ \E i, j \in DOMAIN rcvd :
          /\ i \in RegIdx /\ i < j
          /\ sent[j].method = "registerExtension" /\ rcvd[j].kind # "reply"
    /\ \E k \in DOMAIN rcvd :
          sent[k].method = "deregisterExtension" /\ rcvd[k].kind = "reply"

\* C3 (as stated): once a successful register reply has set the uuid, no
\* later operation changes it.
C3_SetExactlyOnce ==
    [][(\E i \in RegIdx : unwrap(rcvd[i].body.code) = 0) => uuid' = uuid]_vars

\* C3 (amended): every register reply that carries a uuid overwrites the
\* stored one, so the uuid is that of the latest such reply, or 0 if none.
C3_LatestRegisterReplyWins == uuid = RegUuidAfter(Len(rcvd))

\* C3 witness: two register replies with different uuids were received and
\* the session holds the second.
C3_Witness ==
    \E i, j \in RegIdx :
        /\ i < j /\ j = Len(rcvd)
        /\ unwrap(rcvd[i].body.uuid) # unwrap(rcvd[j].body.uuid)
        /\ uuid = unwrap(rcvd[j].body.uuid)

\* C4: every deregister request carries the session's uuid at the time of
\* the call, that is the uuid of the register reply that set it, or 0 when
\* none did; and a deregister is never refused locally, whatever the uuid.
C4_DeregisterCarriesUuid ==
    /\ \A i \in DOMAIN sent :
          sent[i].method = "deregisterExtension"
          => sent[i].uuid = RegUuidAfter(i - 1)
    /\ (Len(sent) > 0 /\ sent[Len(sent)].method = "deregisterExtension")
          => sent[Len(sent)].uuid = uuid
    /\ idle => ENABLED deregister_extension_call

\* C4 witness: one deregister went out with the unset uuid 0 and was
\* answered, and another went out with a uuid taken from a register reply.
C4_Witness ==
    \E i, j \in DOMAIN sent :
        /\ sent[i].method = "deregisterExtension" /\ sent[i].uuid = 0
        /\ i \in DOMAIN rcvd
        /\ sent[j].method = "deregisterExtension" /\ sent[j].uuid \in Uuids

\* C5: whenever the exchange of a register_extension, ping, query or
\* deregister_extension call fails, the value returned to the caller is an
\* error.
C5_FailureNeverSwallowed ==
    (done /\ lastWire.kind # "reply") => ret.kind = "Err"

\* C6: ping returns Ok(true) exactly when the exchange produced a decoded
\* reply, whatever its status code, and an error exactly when it failed.
C6_PingAlive ==
    (done /\ lastReq.method = "ping") =>
        /\ ret.op = "ping"
        /\ (lastWire.kind = "reply") <=> (ret.kind = "Ok" /\ ret.val = TRUE)
        /\ (lastWire.kind # "reply") <=> (ret.kind = "Err")
        /\ ret.kind = "Err" => ret.err = call_result(lastWire).err

\* C6 witness: a ping was answered with a failure status and returned Ok(true).
C6_Witness ==
    /\ done /\ lastReq.method = "ping"
    /\ lastWire.kind = "reply" /\ unwrap(lastWire.body.code) # 0
    /\ ret.kind = "Ok"

\* C7: after a register_extension call with a failing outcome (failed
\* exchange, or a reply with a nonzero status code, with or without a uuid)
\* the call has returned normally, the session still exists, and main goes
\* on to send a ping.
RegisterFailed ==
    /\ Len(rcvd) >= 1
    /\ sent[1].method = "registerExtension"
    /\ (rcvd[1].kind # "reply" \/ unwrap(rcvd[1].body.code) # 0)
C7_RegisterFailureNonFatal ==
    RegisterFailed =>
        /\ ~panicked
        /\ Len(rcvd) = 1 => (ret.kind = "unit" /\ session = "live")
        /\ session = "dropped" => (Len(sent) >= 2 /\ sent[2].method = "ping")

\* C8: when the endpoint cannot be connected to, new returns a connection
\* error to its caller as a value, no session is constructed and no request
\* is ever sent.
C8_ConnectFailureReported ==
    conn = "failed" =>
        /\ ret.op = "new" /\ ret.kind \in {"None", "Err"}
        /\ session = "none"
        /\ sent = << >>

\* C9: when the host answers a query with an exception-kind message, query
\* returns an error carrying that exception and never Ok with rows.
C9_QueryException ==
    (done /\ lastReq.method = "query" /\ lastWire.kind = "exception") =>
        /\ ret.op = "query" /\ ret.kind = "Err"
        /\ ret.err.type = "Application"
        /\ ret.err.message = lastWire.message

\* C9 witness: a query was answered with an exception and has returned.
C9_Witness ==
    /\ done /\ lastReq.method = "query" /\ lastWire.kind = "exception"
    /\ ret.op = "query" /\ ret.kind = "Err"

\* C10: the connection is closed exactly once, at teardown of the session:
\* while the session is live the connection is open and has never been
\* closed, and once the session is torn down it has been closed once, also
\* when register or deregister failed.
C10_ClosedOnceAtTeardown ==
    /\ closes <= 1
    /\ session = "live" => (conn = "open" /\ closes = 0)
    /\ session = "dropped" => (conn = "closed" /\ closes = 1)

\* C10 witness: main ran to its end with a failed register and a failed
\* deregister, and the connection has been closed once.
C10_Witness ==
    /\ session = "dropped" /\ closes = 1
    /\ Len(rcvd) = 4
    /\ rcvd[1].kind # "reply"
    /\ rcvd[4].kind # "reply"

\* C11: for every decoded query reply, whatever its status code, query
\* returns Ok with exactly the reply's rows, in the reply's order.
C11_QueryReturnsReplyRows ==
    (done /\ lastReq.method = "query" /\ lastWire.kind = "reply") =>
        /\ ret.op = "query" /\ ret.kind = "Ok"
        /\ ret.rows = unwrap(lastWire.body.response)

\* C12: no retries: a step that issues an operation writes exactly one
\* request and a step that finishes an operation, with a reply or with a
\* failure, writes none; so the requests sent are one per operation invoked.
C12_OneRequestPerOperation ==
    /\ [](Len(rcvd) <= Len(sent) /\ (idle => Len(sent) = Len(rcvd)))
    /\ [][/\ (sent' # sent) =>
                /\ Len(sent') = Len(sent) + 1
                /\ sent' = Append(sent, sent'[Len(sent')])
                /\ rcvd' = rcvd
          /\ (rcvd' # rcvd) =>
                /\ Len(rcvd') = Len(rcvd) + 1
                /\ sent' = sent]_vars

\* C12 witness: three operations have finished, one with a failed exchange
\* and one with a reply, and three requests were sent.
C12_Witness ==
    /\ Len(sent) = 3 /\ Len(rcvd) = 3
    /\ \E i, j \in DOMAIN rcvd : rcvd[i].kind # "reply" /\ rcvd[j].kind = "reply"

\* C13: at most one call is outstanding on the connection, and a request is
\* written only when every earlier request has had its reply or its failure.
C13_CallReplyAlternation ==
    /\ [](Len(sent) - Len(rcvd) \in {0, 1})
    /\ [][(sent' # sent) => Len(sent) = Len(rcvd)]_vars

\* C13 witness: a call is outstanding after an earlier call failed and
\* another was answered.
C13_Witness ==
    /\ Len(sent) = 3 /\ Len(rcvd) = 2
    /\ rcvd[1].kind # "reply" /\ rcvd[2].kind = "reply"

\* C14: a ping, query or deregister_extension call that returns an error
\* changes nothing in the session: the uuid, the connection and the session
\* are as before the call, and the next operation can be issued.
C14_FailedCallLeavesSession ==
    /\ []((done /\ ret.kind = "Err" /\ session = "live") =>
            /\ conn = "open" /\ closes = 0 /\ ~panicked
            /\ uuid = RegUuidAfter(Len(rcvd) - 1)
            /\ (Len(sent) = Len(rcvd)) =>
                  (ENABLED ping_call /\ ENABLED deregister_extension_call))
    /\ [][(rcvd' # rcvd /\ ret'.kind = "Err") =>
            /\ uuid' = uuid /\ conn' = conn /\ closes' = closes
            /\ session' = session /\ panicked' = panicked]_vars

\* C14 witness: after a register reply set the uuid, a query returned an
\* error and the deregister that followed was sent with that uuid.
C14_Witness ==
    /\ Len(sent) = 3 /\ 1 \in RegIdx
    /\ sent[2].method = "query" /\ rcvd[2].kind # "reply"
    /\ sent[3].method = "deregisterExtension"
    /\ sent[3].uuid = unwrap(rcvd[1].body.uuid)
    /\ conn = "open"

\* C15: every register request carries an empty registry and the info
\* {name, "0.0.1", "0.0.0", "0.0.0"} for the name it was called with,
\* whatever the session's state and whatever was called before.
C15_RegisterRequestContent ==
    /\ [](\A i \in DOMAIN sent :
            sent[i].method = "registerExtension" =>
                /\ sent[i].registry = << >>
                /\ sent[i].info.name \in Names
                /\ sent[i].info.version = "0.0.1"
                /\ sent[i].info.sdk_version = "0.0.0"
                /\ sent[i].info.min_sdk_version = "0.0.0")
    /\ [][\A n \in Names :
            register_extension_call(n) =>
                sent' = Append(sent,
                    [method |-> "registerExtension",
                     info |-> [name |-> n, version |-> "0.0.1",
                               sdk_version |-> "0.0.0",
                               min_sdk_version |-> "0.0.0"],
                     registry |-> << >>])]_vars

\* C15 witness: a register request was sent before any uuid was set and
\* another after a register reply had set one.
C15_Witness ==
    /\ Len(sent) = 3 /\ 1 \in RegIdx /\ uuid # 0
    /\ sent[1].method = "registerExtension"
    /\ sent[3].method = "registerExtension"

\* C16: on every run of main in which the connection is established,
\* register, ping, query and deregister are each attempted once, in that
\* order, whatever the outcome of the earlier calls.
MainOrder == <<"registerExtension", "ping", "query", "deregisterExtension">>
C16_MainAttemptsAllCalls ==
    /\ Len(sent) <= 4
    /\ \A i \in DOMAIN sent : sent[i].method = MainOrder[i]
    /\ session = "dropped" => Len(sent) = 4

====
